---- MODULE Spec2Model ----
(***************************************************************************)
(* Model of cadence_beats/bpm.py: the SQLite BPM cache (bpm_cache table),  *)
(* the two-phase GetSongBPM lookup search_bpm and the batch scanner        *)
(* scan_for_bpms; of cadence_beats/garmin.py: the cadence zone calculator *)
(* and analyze_runs; of cadence_beats/bpm.py match_to_zone; and of         *)
(* cadence_beats/generator.py and spotify.py: playlist generation.         *)
(*                                                                         *)
(* Python values are modelled as pairs <<tag, n>>:                         *)
(*   None, "RATE_LIMITED", float n, float nan.                             *)
(* SQL values of the bpm REAL column are pairs <<"NULL",0>>, <<"REAL",n>>. *)
(***************************************************************************)
EXTENDS Integers, Sequences, FiniteSets, TLC

\* ------------------------------------------------------------------ bounds
NumTracks == 2      \* distinct track ids of the library
MaxBatch  == 3      \* longest batch handed to scan_for_bpms
NumNames  == 2      \* distinct names / artists handed to set_cached_bpm

VARIABLES
    bpm_cache,      \* rows of the bpm_cache table
    pc,             \* position of the scanner process
    tracks,         \* scan_for_bpms argument
    i,              \* loop index of enumerate(tracks), 0-based
    stats,          \* the dict returned by scan_for_bpms
    missing_songs,  \* the list of unmatched track descriptions
    api_calls,      \* local counter of completed lookups
    bpm,            \* value returned by search_bpm for the current track
    song_id,        \* results[0]["id"] between the two requests
    req,            \* the last HTTP request search_bpm sent
    resp,           \* the last HTTP response search_bpm received
    exc,            \* the exception that ended the run, "" when none
    log,            \* history: requests, writes and sleeps of the current run
    got,            \* history: the search_bpm results of the current run
    dbStart,        \* history: the table when the current operation started
    prevIds,        \* history: track ids of the last run, if it returned
    prevEnd,        \* history: how that run ended ("none" when there was
                    \* no run or it ended in an exception)
    prevSame,       \* history: how the previous run returned, when it had
                    \* the same track set as the current one ("none" otherwise)
    lastPut,        \* history: arguments of the last direct set_cached_bpm
    zones_file,     \* CADENCE_ZONES_FILE: Absent, or the saved zone table
    fit_paths,      \* analyze_runs: what each FIT file of the last run parsed to
    all_cadence,    \* the samples last handed to calculate_zones
    zones,          \* the zone table last computed or matched against
    song_bpm,       \* match_to_zone: the tempo last matched
    matched,        \* match_to_zone: the zone names it returned
    playlists,      \* the playlists current_user_playlists lists, in order
    calls,          \* history: Spotify write calls of the last command
    error,          \* the ClickException message of the last command, or ""
    args,           \* history: arguments of the last create_or_update_playlist
    op              \* history: the command or function that ran last, or ""

\* State of the analyze-runs and generate-playlists commands.
appvars == <<zones_file, fit_paths, all_cadence, zones, song_bpm, matched,
             playlists, calls, error, args, op>>

\* State of the scan-library command, the table apart.
scanvars == <<pc, tracks, i, stats, missing_songs, api_calls, bpm, song_id,
              req, resp, exc, log, got, dbStart, prevIds, prevEnd, prevSame,
              lastPut>>

vars == <<bpm_cache, scanvars, appvars>>

\* ------------------------------------------------------------ Python values
None         == <<"None", 0>>
RATE_LIMITED == <<"RATE_LIMITED", 0>>
NaN          == <<"nan", 0>>
Float(n)     == <<"float", n>>

\* ---------------------------------------------------------------- SQL values
NULL    == <<"NULL", 0>>
REAL(n) == <<"REAL", n>>

\* Binding a Python value to the bpm REAL column: None binds NULL, a float
\* binds a REAL, and SQLite stores a NaN double as NULL.
BindBpm(v) == IF v[1] = "float" THEN REAL(v[2]) ELSE NULL

\* Reading a column value back into Python.
FromSql(c) == IF c = NULL THEN None ELSE Float(c[2])

\* ------------------------------------------------------------ the library
TrackIds == 1..NumTracks
Track(k) == [id |-> k, name |-> <<"name", k>>, artist |-> <<"artist", k>>]
Batches  == UNION {[1..n -> {Track(k) : k \in TrackIds}] : n \in 0..MaxBatch}

\* ------------------------------------------------------------ SQLite cache
Row(track_id, track_name, artist, b) ==
    [track_id |-> track_id, track_name |-> track_name, artist |-> artist,
     bpm |-> BindBpm(b), source |-> "getsongbpm"]

RowsOf(db, track_id) == {r \in db : r.track_id = track_id}

\* SELECT bpm FROM bpm_cache WHERE track_id = ?  ... fetchone()
\* The result is None (no row) or the 1-tuple of the row's bpm.
NoRow == <<"norow", 0>>
FetchOne(db, track_id) ==
    IF RowsOf(db, track_id) = {} THEN NoRow
    ELSE <<"row", (CHOOSE r \in RowsOf(db, track_id) : TRUE).bpm>>

\* get_cached_bpm testing the value for truth: row[0] if row and row[0]
get_cached_bpm_Truthy(db, track_id) ==
    LET row == FetchOne(db, track_id)
    IN  IF row # NoRow /\ row[2] \notin {NULL, REAL(0)}
        THEN FromSql(row[2]) ELSE None

\* get_cached_bpm: row[0] if row else None
get_cached_bpm(db, track_id) ==
    LET row == FetchOne(db, track_id)
    IN  IF row # NoRow THEN FromSql(row[2]) ELSE None

\* set_cached_bpm: INSERT OR REPLACE on the PRIMARY KEY track_id deletes the
\* conflicting row and inserts the new one.
set_cached_bpm(db, track_id, track_name, artist, b) ==
    (db \ RowsOf(db, track_id)) \cup {Row(track_id, track_name, artist, b)}

\* scan_for_bpms lines 165-177: the two queries by which the scanner tells
\* the three states of a track id apart.
Unknown         == <<"Unknown", 0>>
ConfirmedAbsent == <<"ConfirmedAbsent", 0>>
Known(n)        == <<"Known", n>>
TempoState(db, track_id) ==
    LET cached == get_cached_bpm(db, track_id)
        row    == FetchOne(db, track_id)
    IN  IF cached # None THEN Known(cached[2])
        ELSE IF row # NoRow THEN ConfirmedAbsent
        ELSE Unknown

\* get_all_cached: rows WHERE bpm IS NOT NULL
get_all_cached(db) == {r \in db : r.bpm # NULL}

\* --------------------------------------------------------- GetSongBPM API
\* What search_bpm's try block does: it returns a value, raises an exception
\* or goes on to the detail request with the first candidate's id.
Return(v)   == [t |-> "return", v |-> v, exc |-> "", id |-> 0]
Raise(e)    == [t |-> "raise", v |-> None, exc |-> e, id |-> 0]
GoDetail(s) == [t |-> "detail", v |-> None, exc |-> "", id |-> s]

\* except (requests.RequestException, ValueError, KeyError): return None
Except(e) ==
    IF e \in {"RequestException", "ValueError", "KeyError"}
    THEN Return(None) ELSE Raise(e)

\* Candidate ids of a search payload; 0 stands for a candidate whose "id" is
\* missing or falsy.
SongIds        == {7, 8}
CandidateLists == {<<0>>, <<7>>, <<7, 8>>, <<8, 7>>, <<7, 0>>}

Response(failed, status, body, ids, tempo) ==
    [exc |-> failed, status |-> status, body |-> body, ids |-> ids,
     tempo |-> tempo]

\* Bodies of a 200 search response:
\*   notjson    not JSON                      resp.json() raises ValueError
\*   nonobject  JSON list/string/number/null  data.get raises AttributeError
\*   nokey      {}                            results = []
\*   empty      {"search": []}
\*   errobj     {"search": {"error": ...}}    results[0] raises KeyError
\*   scalars    {"search": ["x"]}             results[0].get raises AttributeError
\*   number     {"search": 5}                 results[0] raises TypeError
\*   list       {"search": [{"id": ..}, ..]}
SearchBodies == {"notjson", "nonobject", "nokey", "empty", "errobj",
                 "scalars", "number"}
SearchResponses ==
    {Response(TRUE, 0, "", <<>>, None)}
    \cup {Response(FALSE, s, "", <<>>, None) : s \in {429, 500}}
    \cup {Response(FALSE, 200, b, <<>>, None) : b \in SearchBodies}
    \cup {Response(FALSE, 200, "list", c, None) : c \in CandidateLists}

\* The provider's tempo field: <<type, n>>.
\*   null / missing, a JSON number n, a numeric string "n", the empty string,
\*   a non-numeric string, the string "nan", a JSON list.
TempoFields == {<<"null", 0>>, <<"num", 0>>, <<"num", 128>>, <<"num", -4>>,
                <<"numstr", 0>>, <<"numstr", 128>>, <<"emptystr", 0>>,
                <<"badstr", 0>>, <<"nanstr", 0>>, <<"list", 0>>}

\* Bodies of a 200 detail response:
\*   notjson, nonobject as above
\*   nosong     {}                            detail.get("song", {}) = {}
\*   songnull   {"song": null}                None.get raises AttributeError
\*   song       {"song": {"tempo": <tempo field>}}
DetailBodies == {"notjson", "nonobject", "nosong", "songnull"}
DetailResponses ==
    {Response(TRUE, 0, "", <<>>, None)}
    \cup {Response(FALSE, s, "", <<>>, None) : s \in {429, 500}}
    \cup {Response(FALSE, 200, b, <<>>, None) : b \in DetailBodies}
    \cup {Response(FALSE, 200, "song", <<>>, f) : f \in TempoFields}

\* if tempo:
Truthy(f) ==
    CASE f[1] = "null"     -> FALSE
      [] f[1] = "num"      -> f[2] # 0
      [] f[1] = "emptystr" -> FALSE
      [] OTHER             -> TRUE

\* float(tempo) for a truthy tempo
ToFloat(f) ==
    CASE f[1] = "num"    -> Return(Float(f[2]))
      [] f[1] = "numstr" -> Return(Float(f[2]))
      [] f[1] = "nanstr" -> Return(NaN)
      [] f[1] = "badstr" -> Except("ValueError")
      [] OTHER           -> Except("TypeError")

\* SearchPhase taking the last candidate of the list instead of the first
SearchPhase_LastCandidate(rsp) ==
    IF rsp.exc THEN Except("RequestException")
    ELSE IF rsp.status = 429 THEN Return(RATE_LIMITED)
    ELSE IF rsp.status # 200 THEN Return(None)
    ELSE CASE rsp.body = "notjson"   -> Except("ValueError")
           [] rsp.body = "nonobject" -> Except("AttributeError")
           [] rsp.body = "nokey"     -> Return(None)
           [] rsp.body = "empty"     -> Return(None)
           [] rsp.body = "errobj"    -> Except("KeyError")
           [] rsp.body = "scalars"   -> Except("AttributeError")
           [] rsp.body = "number"    -> Except("TypeError")
           [] OTHER ->
                IF rsp.ids[Len(rsp.ids)] = 0 THEN Return(None)
                ELSE GoDetail(rsp.ids[Len(rsp.ids)])

\* search_bpm, lines 103-123: the search request and the choice of song_id
SearchPhase(rsp) ==
    IF rsp.exc THEN Except("RequestException")
    ELSE IF rsp.status = 429 THEN Return(RATE_LIMITED)
    ELSE IF rsp.status # 200 THEN Return(None)
    ELSE CASE rsp.body = "notjson"   -> Except("ValueError")
           [] rsp.body = "nonobject" -> Except("AttributeError")
           [] rsp.body = "nokey"     -> Return(None)
           [] rsp.body = "empty"     -> Return(None)
           [] rsp.body = "errobj"    -> Except("KeyError")
           [] rsp.body = "scalars"   -> Except("AttributeError")
           [] rsp.body = "number"    -> Except("TypeError")
           [] OTHER ->
                IF rsp.ids[1] = 0 THEN Return(None)
                ELSE GoDetail(rsp.ids[1])

\* search_bpm, lines 126-142: the detail request and the tempo field
DetailPhase(rsp) ==
    IF rsp.exc THEN Except("RequestException")
    ELSE IF rsp.status = 429 THEN Return(RATE_LIMITED)
    ELSE IF rsp.status # 200 THEN Return(None)
    ELSE CASE rsp.body = "notjson"   -> Except("ValueError")
           [] rsp.body = "nonobject" -> Except("AttributeError")
           [] rsp.body = "nosong"    -> Return(None)
           [] rsp.body = "songnull"  -> Except("AttributeError")
           [] OTHER ->
                IF Truthy(rsp.tempo) THEN ToFloat(rsp.tempo)
                ELSE Return(None)

NoResponse == Response(FALSE, 0, "", <<>>, None)

\* requests.get(GETSONGBPM_BASE + url, params = {..., "id": id}); the search
\* request carries the query built from the track instead of an id.
Request(url, id) == [url |-> url, id |-> id]
NoRequest == Request("", 0)

\* ------------------------------------------------------------ scan_for_bpms
Event(ev, pos, arg) == [ev |-> ev, pos |-> pos, arg |-> arg]

NewStats == [found |-> 0, not_found |-> 0, cached |-> 0, rate_limited |-> FALSE]

Ids(ts) == {ts[n].id : n \in 1..Len(ts)}

\* How the run that is now over ended.
EndOf(p, st) ==
    CASE p = "raised"   -> "raised"
      [] p = "returned" -> IF st.rate_limited THEN "rate_limited" ELSE "complete"
      [] OTHER          -> "none"

\* CADENCE_ZONES_FILE: missing, or holding the zone table save_zones wrote.
\* A zone table (a dict name -> [low, high]) is the sequence of its items.
Absent    == [exists |-> FALSE, table |-> <<>>]
Saved(zs) == [exists |-> TRUE, table |-> zs]

\* The scan-library command before it has run.
ScanInit ==
    /\ pc = "idle"
    /\ tracks = <<>>
    /\ i = 0
    /\ stats = NewStats
    /\ missing_songs = <<>>
    /\ api_calls = 0
    /\ bpm = None
    /\ song_id = 0
    /\ req = NoRequest
    /\ resp = NoResponse
    /\ exc = ""
    /\ log = <<>>
    /\ got = <<>>
    /\ dbStart = {}
    /\ prevIds = {}
    /\ prevEnd = "none"
    /\ prevSame = "none"
    /\ lastPut = <<>>

\* The other commands before they have run.
AppInit ==
    /\ fit_paths = <<>>
    /\ all_cadence = <<>>
    /\ zones = <<>>
    /\ song_bpm = 0
    /\ matched = <<>>
    /\ calls = <<>>
    /\ error = ""
    /\ args = <<>>
    /\ op = ""

\* A fresh installation: empty table, no zones file, no playlists.
Init ==
    /\ bpm_cache = {}
    /\ zones_file = Absent
    /\ playlists = <<>>
    /\ ScanInit
    /\ AppInit

\* The current track of the loop (tracks[i] in the code).
track == tracks[i + 1]

\* lines 157-162: a new invocation; _get_db creates the table if missing
StartScan(ts) ==
    /\ pc = "idle"
    /\ pc' = "loop"
    /\ tracks' = ts
    /\ i' = 0
    /\ stats' = NewStats
    /\ missing_songs' = <<>>
    /\ api_calls' = 0
    /\ bpm' = None
    /\ song_id' = 0
    /\ req' = NoRequest
    /\ resp' = NoResponse
    /\ exc' = ""
    /\ log' = <<>>
    /\ got' = <<>>
    /\ dbStart' = bpm_cache
    /\ prevSame' = IF Ids(ts) = prevIds THEN prevEnd ELSE "none"
    /\ prevIds' = {}
    /\ prevEnd' = "none"
    /\ UNCHANGED <<bpm_cache, lastPut>>
    /\ UNCHANGED appvars

\* CacheHit with a row-exists test in place of "cached is not None"
CacheHit_AnyRow ==
    /\ pc = "loop" /\ i < Len(tracks)
    /\ FetchOne(bpm_cache, track.id) # NoRow
    /\ stats' = [stats EXCEPT !.cached = @ + 1]
    /\ i' = i + 1
    /\ UNCHANGED <<bpm_cache, pc, tracks, missing_songs, api_calls, bpm,
                   song_id, req, resp, exc, log, got, dbStart, prevIds,
                   prevEnd, prevSame, lastPut>>
    /\ UNCHANGED appvars

\* lines 165-168: cached is not None
CacheHit ==
    /\ pc = "loop" /\ i < Len(tracks)
    /\ TempoState(bpm_cache, track.id)[1] = "Known"
    /\ stats' = [stats EXCEPT !.cached = @ + 1]
    /\ i' = i + 1
    /\ UNCHANGED <<bpm_cache, pc, tracks, missing_songs, api_calls, bpm,
                   song_id, req, resp, exc, log, got, dbStart, prevIds,
                   prevEnd, prevSame, lastPut>>
    /\ UNCHANGED appvars

\* lines 170-177: a row exists whose bpm is NULL
CacheAbsent ==
    /\ pc = "loop" /\ i < Len(tracks)
    /\ TempoState(bpm_cache, track.id) = ConfirmedAbsent
    /\ stats' = [stats EXCEPT !.not_found = @ + 1]
    /\ missing_songs' = Append(missing_songs, <<track.artist, track.name>>)
    /\ i' = i + 1
    /\ UNCHANGED <<bpm_cache, pc, tracks, api_calls, bpm, song_id, req, resp,
                   exc, log, got, dbStart, prevIds, prevEnd, prevSame,
                   lastPut>>
    /\ UNCHANGED appvars

\* CacheMiss without the second query: a NULL bpm counts as a miss
CacheMiss_NullIsMiss ==
    /\ pc = "loop" /\ i < Len(tracks)
    /\ get_cached_bpm(bpm_cache, track.id) = None
    /\ pc' = "search"
    /\ UNCHANGED <<bpm_cache, tracks, i, stats, missing_songs, api_calls,
                   bpm, song_id, req, resp, exc, log, got, dbStart, prevIds,
                   prevEnd, prevSame, lastPut>>
    /\ UNCHANGED appvars

\* CacheMiss deciding from the table as it was when the run started
CacheMiss_StartSnapshot ==
    /\ pc = "loop" /\ i < Len(tracks)
    /\ TempoState(dbStart, track.id) = Unknown
    /\ pc' = "search"
    /\ UNCHANGED <<bpm_cache, tracks, i, stats, missing_songs, api_calls,
                   bpm, song_id, req, resp, exc, log, got, dbStart, prevIds,
                   prevEnd, prevSame, lastPut>>
    /\ UNCHANGED appvars

\* lines 179-180: no row, search_bpm is called
CacheMiss ==
    /\ pc = "loop" /\ i < Len(tracks)
    /\ TempoState(bpm_cache, track.id) = Unknown
    /\ pc' = "search"
    /\ UNCHANGED <<bpm_cache, tracks, i, stats, missing_songs, api_calls,
                   bpm, song_id, req, resp, exc, log, got, dbStart, prevIds,
                   prevEnd, prevSame, lastPut>>
    /\ UNCHANGED appvars

\* What a finished phase of search_bpm leaves behind, given the request q and
\* its response r:
\* the returned value, the song_id for the detail request, or an exception
\* that leaves search_bpm and scan_for_bpms (neither catches it).
Outcome(out, q, r) ==
    /\ pc' = CASE out.t = "return" -> "lookup_done"
               [] out.t = "raise"  -> "raised"
               [] OTHER            -> "detail"
    /\ bpm' = out.v
    /\ song_id' = IF out.t = "detail" THEN out.id ELSE song_id
    /\ resp' = r
    /\ req' = q
    /\ exc' = out.exc
    /\ got' = IF out.t = "return"
              THEN Append(got, [pos |-> i, bpm |-> out.v]) ELSE got

\* search_bpm lines 103-123: the search request
SearchRequest(r) ==
    /\ pc = "search"
    /\ log' = Append(log, Event("search", i, 0))
    /\ Outcome(SearchPhase(r), Request("/search/", 0), r)
    /\ UNCHANGED <<bpm_cache, tracks, i, stats, missing_songs, api_calls,
                   dbStart, prevIds, prevEnd, prevSame, lastPut>>
    /\ UNCHANGED appvars

\* search_bpm lines 126-142: the detail request for song_id
DetailRequest(r) ==
    /\ pc = "detail"
    /\ log' = Append(log, Event("detail", i, 0))
    /\ Outcome(DetailPhase(r), Request("/song/", song_id), r)
    /\ UNCHANGED <<bpm_cache, tracks, i, stats, missing_songs, api_calls,
                   dbStart, prevIds, prevEnd, prevSame, lastPut>>
    /\ UNCHANGED appvars

\* RateLimitedBreak that caches the rate-limited track as a miss first
RateLimitedBreak_Persist ==
    /\ pc = "lookup_done" /\ bpm = RATE_LIMITED
    /\ bpm_cache' = set_cached_bpm(bpm_cache, track.id, track.name,
                                   track.artist, None)
    /\ stats' = [stats EXCEPT !.rate_limited = TRUE]
    /\ pc' = "returned"
    /\ song_id' = 0
    /\ req' = NoRequest
    /\ resp' = NoResponse
    /\ UNCHANGED <<tracks, i, missing_songs, api_calls, bpm, exc,
                   log, got, dbStart, prevIds, prevEnd, prevSame, lastPut>>
    /\ UNCHANGED appvars

\* RateLimitedBreak that counts the rate-limited track as not found
RateLimitedBreak_Tally ==
    /\ pc = "lookup_done" /\ bpm = RATE_LIMITED
    /\ stats' = [stats EXCEPT !.rate_limited = TRUE, !.not_found = @ + 1]
    /\ pc' = "returned"
    /\ song_id' = 0
    /\ req' = NoRequest
    /\ resp' = NoResponse
    /\ UNCHANGED <<bpm_cache, tracks, i, missing_songs, api_calls, bpm, exc,
                   log, got, dbStart, prevIds, prevEnd, prevSame, lastPut>>
    /\ UNCHANGED appvars

\* lines 182-188 then 207-216: the rate limit ends the loop and the run
RateLimitedBreak ==
    /\ pc = "lookup_done" /\ bpm = RATE_LIMITED
    /\ stats' = [stats EXCEPT !.rate_limited = TRUE]
    /\ pc' = "returned"
    /\ song_id' = 0
    /\ req' = NoRequest
    /\ resp' = NoResponse
    /\ UNCHANGED <<bpm_cache, tracks, i, missing_songs, api_calls, bpm, exc,
                   log, got, dbStart, prevIds, prevEnd, prevSame, lastPut>>
    /\ UNCHANGED appvars

\* StoreResult that tallies a miss without caching it
StoreResult_NoMissCache ==
    /\ pc = "lookup_done" /\ bpm # RATE_LIMITED
    /\ IF bpm # None
       THEN /\ bpm_cache' = set_cached_bpm(bpm_cache, track.id, track.name,
                                           track.artist, bpm)
            /\ stats' = [stats EXCEPT !.found = @ + 1]
            /\ UNCHANGED missing_songs
       ELSE /\ UNCHANGED bpm_cache
            /\ stats' = [stats EXCEPT !.not_found = @ + 1]
            /\ missing_songs' = Append(missing_songs,
                                       <<track.artist, track.name>>)
    /\ api_calls' = api_calls + 1
    /\ log' = Append(log, Event("put", i, IF bpm # None THEN 1 ELSE 0))
    /\ pc' = "sleep"
    /\ song_id' = 0
    /\ req' = NoRequest
    /\ resp' = NoResponse
    /\ UNCHANGED <<tracks, i, bpm, exc, got, dbStart, prevIds, prevEnd,
                   prevSame, lastPut>>
    /\ UNCHANGED appvars

\* StoreResult that goes on to the next track without the delay after a miss
StoreResult_SleepOnFound ==
    /\ pc = "lookup_done" /\ bpm # RATE_LIMITED
    /\ bpm_cache' = set_cached_bpm(bpm_cache, track.id, track.name,
                                   track.artist, bpm)
    /\ IF bpm # None
       THEN /\ stats' = [stats EXCEPT !.found = @ + 1]
            /\ UNCHANGED missing_songs
       ELSE /\ stats' = [stats EXCEPT !.not_found = @ + 1]
            /\ missing_songs' = Append(missing_songs,
                                       <<track.artist, track.name>>)
    /\ api_calls' = api_calls + 1
    /\ log' = Append(log, Event("put", i, IF bpm # None THEN 1 ELSE 0))
    /\ pc' = IF bpm # None THEN "sleep" ELSE "loop"
    /\ i' = IF bpm # None THEN i ELSE i + 1
    /\ song_id' = 0
    /\ req' = NoRequest
    /\ resp' = NoResponse
    /\ UNCHANGED <<tracks, bpm, exc, got, dbStart, prevIds, prevEnd,
                   prevSame, lastPut>>
    /\ UNCHANGED appvars

\* lines 190-199: the outcome is cached and tallied
StoreResult ==
    /\ pc = "lookup_done" /\ bpm # RATE_LIMITED
    /\ bpm_cache' = set_cached_bpm(bpm_cache, track.id, track.name,
                                   track.artist, bpm)
    /\ IF bpm # None
       THEN /\ stats' = [stats EXCEPT !.found = @ + 1]
            /\ UNCHANGED missing_songs
       ELSE /\ stats' = [stats EXCEPT !.not_found = @ + 1]
            /\ missing_songs' = Append(missing_songs,
                                       <<track.artist, track.name>>)
    /\ api_calls' = api_calls + 1
    /\ log' = Append(log, Event("put", i, IF bpm # None THEN 1 ELSE 0))
    /\ pc' = "sleep"
    /\ song_id' = 0
    /\ req' = NoRequest
    /\ resp' = NoResponse
    /\ UNCHANGED <<tracks, i, bpm, exc, got, dbStart, prevIds, prevEnd,
                   prevSame, lastPut>>
    /\ UNCHANGED appvars

\* line 205: time.sleep(1), then the next track
Sleep ==
    /\ pc = "sleep"
    /\ log' = Append(log, Event("sleep", i, 0))
    /\ i' = i + 1
    /\ pc' = "loop"
    /\ bpm' = None
    /\ UNCHANGED <<bpm_cache, tracks, stats, missing_songs, api_calls,
                   song_id, req, resp, exc, got, dbStart, prevIds, prevEnd,
                   prevSame, lastPut>>
    /\ UNCHANGED appvars

\* lines 207-216: the loop is exhausted, the connection closed, stats returned
LoopEnd ==
    /\ pc = "loop" /\ i = Len(tracks)
    /\ pc' = "returned"
    /\ UNCHANGED <<bpm_cache, tracks, i, stats, missing_songs, api_calls,
                   bpm, song_id, req, resp, exc, log, got, dbStart, prevIds,
                   prevEnd, prevSame, lastPut>>
    /\ UNCHANGED appvars

\* cli.py scan_library_cmd: the summary is printed and the command ends, or
\* the uncaught exception ends it; nothing but the table outlives the process.
Exit ==
    /\ pc \in {"returned", "raised"}
    /\ pc' = "idle"
    /\ prevIds' = IF pc = "returned" THEN Ids(tracks) ELSE {}
    /\ prevEnd' = IF pc = "returned" THEN EndOf(pc, stats) ELSE "none"
    /\ prevSame' = "none"
    /\ tracks' = <<>>
    /\ i' = 0
    /\ stats' = NewStats
    /\ missing_songs' = <<>>
    /\ api_calls' = 0
    /\ bpm' = None
    /\ song_id' = 0
    /\ req' = NoRequest
    /\ resp' = NoResponse
    /\ exc' = ""
    /\ log' = <<>>
    /\ got' = <<>>
    /\ dbStart' = bpm_cache
    /\ UNCHANGED <<bpm_cache, lastPut>>
    /\ UNCHANGED appvars

\* The position guards of the actions that take an input are repeated ahead
\* of the quantifier.
Next ==
    \/ pc = "idle" /\ \E ts \in Batches : StartScan(ts)
    \/ CacheHit
    \/ CacheAbsent
    \/ CacheMiss
    \/ pc = "search" /\ \E r \in SearchResponses : SearchRequest(r)
    \/ pc = "detail" /\ \E r \in DetailResponses : DetailRequest(r)
    \/ RateLimitedBreak
    \/ StoreResult
    \/ Sleep
    \/ LoopEnd
    \/ Exit

Spec == Init /\ [][Next]_vars

\* ------------------------------------------- the scan, run again and again
\* scan-library run repeatedly on one library of two liked songs.  Every
\* step of a run is taken in the end (the process runs, each request is
\* answered or times out) and the command is run again after it has ended.
LiveBatch == <<Track(1), Track(2)>>

NextLive ==
    \/ StartScan(LiveBatch)
    \/ CacheHit
    \/ CacheAbsent
    \/ CacheMiss
    \/ \E r \in SearchResponses : SearchRequest(r)
    \/ \E r \in DetailResponses : DetailRequest(r)
    \/ RateLimitedBreak
    \/ StoreResult
    \/ Sleep
    \/ LoopEnd
    \/ Exit

SpecLive == Init /\ [][NextLive]_vars /\ WF_vars(NextLive)

\* ------------------------------------------------- the store, called directly
Names == {<<"name", n>> : n \in 1..NumNames}
Artists == {<<"artist", n>> : n \in 1..NumNames}
\* The values scan_for_bpms hands to set_cached_bpm: None for a miss, or the
\* float search_bpm returned, which float("nan") is one of.
PutValues == {None, Float(128), Float(96), NaN}

\* set_cached_bpm called on an open connection, outside any scan
PutOp(track_id, track_name, artist, b) ==
    /\ pc = "idle"
    /\ dbStart' = bpm_cache
    /\ bpm_cache' = set_cached_bpm(bpm_cache, track_id, track_name, artist, b)
    /\ lastPut' = <<[track_id |-> track_id, track_name |-> track_name,
                     artist |-> artist, bpm |-> b]>>
    /\ UNCHANGED <<pc, tracks, i, stats, missing_songs, api_calls, bpm,
                   song_id, req, resp, exc, log, got, prevIds, prevEnd,
                   prevSame>>
    /\ UNCHANGED appvars

NextStore ==
    \E k \in TrackIds, n \in Names, a \in Artists, b \in PutValues :
        PutOp(k, n, a, b)

SpecStore == Init /\ [][NextStore]_vars

\* ------------------------------------------------------------ cadence zones
Zone(name, low, high) == [name |-> name, low |-> low, high |-> high]

\* garmin.py FIXED_ZONES
FIXED_ZONES ==
    << Zone("Easy", 150, 165), Zone("Moderate", 165, 175),
       Zone("Tempo", 175, 185), Zone("Speed", 185, 200) >>

\* match_to_zone line 227: candidates = [bpm, bpm * 2, bpm / 2].  Tempos are
\* whole numbers here; the candidates are held doubled, which keeps bpm / 2
\* exact, and are compared with the doubled bounds.
Candidates(b) == <<2 * b, 4 * b, b>>

\* line 231: low <= candidate <= high, for a doubled candidate c
InBounds(c, low, high) == 2 * low <= c /\ c <= 2 * high

\* The inner loop without its break: one append per candidate within bounds
RECURSIVE ZoneLoop_NoBreak(_, _, _, _)
ZoneLoop_NoBreak(m, z, cands, k) ==
    IF k > Len(cands) THEN m
    ELSE ZoneLoop_NoBreak(
             IF InBounds(cands[k], z.low, z.high) THEN Append(m, z.name) ELSE m,
             z, cands, k + 1)

\* lines 230-233: the inner loop over the candidates from the k-th on; the
\* first candidate within bounds appends the zone name and breaks.
RECURSIVE ZoneLoop(_, _, _, _)
ZoneLoop(m, z, cands, k) ==
    IF k > Len(cands) THEN m
    ELSE IF InBounds(cands[k], z.low, z.high) THEN Append(m, z.name)
    ELSE ZoneLoop(m, z, cands, k + 1)

\* lines 229-235: the outer loop over zones.items() from the j-th item on
RECURSIVE MatchFrom(_, _, _, _)
MatchFrom(m, b, zs, j) ==
    IF j > Len(zs) THEN m
    ELSE MatchFrom(ZoneLoop(m, zs[j], Candidates(b), 1), b, zs, j + 1)

match_to_zone(b, zs) == MatchFrom(<<>>, b, zs, 1)

\* Tempos handed to match_to_zone: cached bpm values, which the lookup does
\* not restrict to positive numbers.
Tempos == {-4, 0, 75, 78, 80, 85, 128, 150, 156, 170, 190, 380}

\* Zone tables other than the computed ones: the empty table, the fallback
\* table, and a zones file edited by hand to overlapping bands.
ZoneTables ==
    { <<>>, FIXED_ZONES,
      << Zone("Easy", 140, 170), Zone("Wide", 80, 200), Zone("Tempo", 175, 190) >> }

\* sorted(): insertion of x into an ascending sequence
RECURSIVE Insert(_, _)
Insert(x, s) ==
    IF s = <<>> THEN <<x>>
    ELSE IF x <= Head(s) THEN <<x>> \o s
    ELSE <<Head(s)>> \o Insert(x, Tail(s))

RECURSIVE Sorted(_)
Sorted(s) == IF s = <<>> THEN <<>> ELSE Insert(Head(s), Sorted(Tail(s)))

Min(a, b) == IF a <= b THEN a ELSE b
Max(a, b) == IF a >= b THEN a ELSE b

\* percentile taking the 1-based rank p * n / 100 as a 0-based index less one
percentile_RankLessOne(sorted_cadence, p) ==
    LET n   == Len(sorted_cadence)
        idx == Max((p * n) \div 100 - 1, 0)
    IN  sorted_cadence[idx + 1]

\* calculate_zones lines 98-101: idx = int(p / 100 * n), clamped to n - 1.
\* For p in {25, 50, 75, 90} the float product truncates to (p * n) div 100
\* (the double 0.9 lies above 9/10 by less than the rounding can carry).
percentile(sorted_cadence, p) ==
    LET n   == Len(sorted_cadence)
        idx == Min((p * n) \div 100, n - 1)
    IN  sorted_cadence[idx + 1]

\* The zone table of the percentiles of a sequence, taken as it stands
ZonesOf(sorted_cadence) ==
    LET n   == Len(sorted_cadence)
        p25 == percentile(sorted_cadence, 25)
        p50 == percentile(sorted_cadence, 50)
        p75 == percentile(sorted_cadence, 75)
        p90 == percentile(sorted_cadence, 90)
    IN  << Zone("Easy", p25, p50), Zone("Moderate", p50, p75),
           Zone("Tempo", p75, p90),
           Zone("Speed", p90, Max(sorted_cadence[n], p90 + 10)) >>

\* calculate_zones without line 95: the percentiles of the unsorted samples
calculate_zones_Unsorted(cadence) == ZonesOf(cadence)

\* calculate_zones lines 95-114, for a non-empty list
calculate_zones(cadence) == ZonesOf(Sorted(cadence))

\* ------------------------------------------------------------ analyze_runs
\* lines 146-173, from the list of FIT files on; files[k] is what
\* parse_cadence_from_fit returns for the k-th file (<<>> when the file has
\* no cadence records or cannot be parsed).
RECURSIVE Extend(_)
Extend(files) == IF files = <<>> THEN <<>> ELSE Head(files) \o Extend(Tail(files))

MinRuns == 10

NoFitFiles    == "No FIT files to analyze."
NoCadenceData == "No cadence data found in any FIT file."

\* The outcome of analyze_runs: the exception raised, the samples handed to
\* calculate_zones (<<>> when it is not called) and the table saved.
analyze_runs(files) ==
    LET cadence  == Extend(files)
        num_runs == Len(files)
    IN  IF files = <<>>
        THEN [error |-> NoFitFiles, computed |-> <<>>, save |-> Absent]
        ELSE IF cadence = <<>>
        THEN [error |-> NoCadenceData, computed |-> <<>>, save |-> Absent]
        ELSE IF num_runs < MinRuns
        THEN [error |-> "", computed |-> <<>>, save |-> Saved(FIXED_ZONES)]
        ELSE [error |-> "", computed |-> cadence,
              save |-> Saved(calculate_zones(cadence))]

\* ---------------------------------------------------- inputs of the zone code
MaxRun   == 11     \* longest stretch of one cadence value in a sample list
MaxFiles == 11     \* most FIT files handed to analyze_runs

\* Cadence readings (steps per minute: twice the recorded half-cycles)
SampleValues == <<190, 150, 156>>

Repeat(v, k) == [j \in 1..k |-> v]

\* Sample lists: each value in one stretch, the fastest stretch first
SampleLists ==
    { Repeat(SampleValues[1], c[1]) \o Repeat(SampleValues[2], c[2])
        \o Repeat(SampleValues[3], c[3]) : c \in [1..3 -> 0..MaxRun] }
    \ {<<>>}

\* What one FIT file parses to
FileSamples == {<<>>, <<170, 150>>}
FileLists == UNION {[1..n -> FileSamples] : n \in 0..MaxFiles}

\* The state before a function of the zone code is applied: its argument is
\* in place, a sample list for calculate_zones or a list of FIT files for
\* analyze_runs.
InitZones ==
    /\ bpm_cache = {}
    /\ zones_file = Absent
    /\ playlists = <<>>
    /\ ScanInit
    /\ \/ all_cadence \in SampleLists /\ fit_paths = <<>>
       \/ all_cadence = <<>> /\ fit_paths \in FileLists
    /\ zones = <<>>
    /\ song_bpm = 0
    /\ matched = <<>>
    /\ calls = <<>>
    /\ error = ""
    /\ args = <<>>
    /\ op = ""

\* calculate_zones applied to the sample list
CalcOp ==
    /\ op = "" /\ all_cadence # <<>>
    /\ op' = "calculate_zones"
    /\ zones' = calculate_zones(all_cadence)
    /\ UNCHANGED <<bpm_cache, scanvars, zones_file, fit_paths, all_cadence,
                   song_bpm, matched, playlists, calls, error, args>>

\* The analyze-runs command on the list of FIT files
AnalyzeOp ==
    LET out == analyze_runs(fit_paths)
    IN  /\ op = "" /\ all_cadence = <<>>
        /\ op' = "analyze_runs"
        /\ error' = out.error
        /\ all_cadence' = out.computed
        /\ zones_file' = IF out.error = "" THEN out.save ELSE zones_file
        /\ zones' = IF out.error = "" THEN out.save.table ELSE <<>>
        /\ UNCHANGED <<bpm_cache, scanvars, fit_paths, song_bpm, matched,
                       playlists, calls, args>>

\* match_to_zone applied to a tempo and a zone table: the one just computed
\* or saved, or another one
MatchOp(b, zs) ==
    /\ op \in {"calculate_zones", "analyze_runs"}
    /\ op' = "match_to_zone"
    /\ song_bpm' = b
    /\ zones' = zs
    /\ matched' = match_to_zone(b, zs)
    /\ all_cadence' = IF zs = zones /\ op = "calculate_zones"
                      THEN all_cadence ELSE <<>>
    /\ fit_paths' = <<>>
    /\ error' = ""
    /\ UNCHANGED <<bpm_cache, scanvars, zones_file, playlists, calls, args>>

NextZones ==
    \/ CalcOp
    \/ AnalyzeOp
    \/ \E b \in Tempos, zs \in ZoneTables \cup {zones} : MatchOp(b, zs)

SpecZones == InitZones /\ [][NextZones]_vars

\* ---------------------------------------------------------------- Spotify
\* A playlist as current_user_playlists lists it, with its items.
Playlist(id, name, owner, description, items) ==
    [id |-> id, name |-> name, owner |-> owner, description |-> description,
     items |-> items]

\* A write call of the Spotify client
Call(fn, id, arg) == [fn |-> fn, id |-> id, arg |-> arg]

\* find_existing_playlist: the pages are walked in order and the first
\* playlist with the name and the owner is returned; 0 stands for None.
RECURSIVE FindFrom(_, _, _, _)
FindFrom(pls, user_id, name, j) ==
    IF j > Len(pls) THEN 0
    ELSE IF pls[j].name = name /\ pls[j].owner = user_id THEN pls[j].id
    ELSE FindFrom(pls, user_id, name, j + 1)

find_existing_playlist(pls, user_id, name) == FindFrom(pls, user_id, name, 1)

\* The id Spotify gives a new playlist: one no listed playlist has
NewId(pls) ==
    1 + (CHOOSE m \in {0} \cup {pls[j].id : j \in 1..Len(pls)} :
             \A j \in 1..Len(pls) : pls[j].id <= m)

\* playlist_change_details, playlist_replace_items and playlist_add_items:
\* what each does to the playlist of the id
ChangeDetails(pls, id, description) ==
    [j \in 1..Len(pls) |->
        IF pls[j].id = id THEN [pls[j] EXCEPT !.description = description]
        ELSE pls[j]]

ReplaceItems(pls, id, items) ==
    [j \in 1..Len(pls) |->
        IF pls[j].id = id THEN [pls[j] EXCEPT !.items = items] ELSE pls[j]]

AddItems(pls, id, items) ==
    [j \in 1..Len(pls) |->
        IF pls[j].id = id THEN [pls[j] EXCEPT !.items = @ \o items]
        ELSE pls[j]]

BatchSize == 100

\* create_or_update_playlist lines 108-110: the add calls from offset k on
RECURSIVE AddBatches(_, _, _, _)
AddBatches(st, id, track_uris, k) ==
    IF k >= Len(track_uris) THEN st
    ELSE LET batch == SubSeq(track_uris, k + 1,
                             Min(k + BatchSize, Len(track_uris)))
         IN  AddBatches(
                 [pl    |-> AddItems(st.pl, id, batch),
                  calls |-> Append(st.calls,
                                   Call("playlist_add_items", id, batch)),
                  id    |-> id],
                 id, track_uris, k + BatchSize)

\* lines 96-105: the playlist is found and, when clear is set, emptied; or
\* it is created (a new playlist is listed first)
FindOrCreate(st, user_id, name, description, clear) ==
    LET playlist_id == find_existing_playlist(st.pl, user_id, name)
        new         == NewId(st.pl)
    IN  IF playlist_id # 0
        THEN [pl    |-> IF clear
                        THEN ReplaceItems(
                                 ChangeDetails(st.pl, playlist_id, description),
                                 playlist_id, <<>>)
                        ELSE ChangeDetails(st.pl, playlist_id, description),
              calls |-> st.calls \o
                  <<Call("playlist_change_details", playlist_id, description)>>
                  \o (IF clear
                      THEN <<Call("playlist_replace_items", playlist_id, <<>>)>>
                      ELSE <<>>),
              id    |-> playlist_id]
        ELSE [pl    |-> <<Playlist(new, name, user_id, description, <<>>)>>
                            \o st.pl,
              calls |-> Append(st.calls, Call("user_playlist_create", new, name)),
              id    |-> new]

\* create_or_update_playlist without playlist_replace_items(playlist_id, [])
create_or_update_playlist_NoClear(st, user_id, name, description, track_uris) ==
    LET found == FindOrCreate(st, user_id, name, description, FALSE)
    IN  AddBatches(found, found.id, track_uris, 0)

\* create_or_update_playlist, from the listed playlists st.pl and the calls
\* st.calls made so far: the playlists and calls after it, and the id returned
create_or_update_playlist(st, user_id, name, description, track_uris) ==
    LET found == FindOrCreate(st, user_id, name, description, TRUE)
    IN  AddBatches(found, found.id, track_uris, 0)

\* ----------------------------------------------------- generate_playlists
PLAYLIST_PREFIX == "Run"
ATTRIBUTION     == "BPM data from GetSongBPM.com"

\* get_user_id: the id of the authenticated user
User == "me"

\* line 57: f"{PLAYLIST_PREFIX}: {zone_name} Pace ({low}-{high} BPM)"
PlaylistName(z) == <<PLAYLIST_PREFIX, z.name, "Pace", z.low, z.high, "BPM">>

\* lines 58-61
Description(z) == <<"Songs matching your", z.name, z.low, z.high, ATTRIBUTION>>

\* line 64: f"spotify:track:{t['track_id']}"
TrackUri(track_id) == <<"spotify:track", track_id>>

NoZones == "No cadence zones found. Run 'cadence-beats analyze-runs' first."
NoSongs == "No songs with BPM data found. Run 'cadence-beats scan-library' first."

\* lines 31-40: the songs grouped under the j-th zone, in cache order
zone_tracks(zs, songs, j) ==
    LET InZone(song) ==
            \E m \in 1..Len(match_to_zone(song.bpm[2], zs)) :
                match_to_zone(song.bpm[2], zs)[m] = zs[j].name
    IN  SelectSeq(songs, InZone)

\* lines 51-70: the loop over zone_tracks.items() from the j-th zone on
RECURSIVE CreateFrom(_, _, _, _)
CreateFrom(st, zs, songs, j) ==
    IF j > Len(zs) THEN st
    ELSE LET ts == zone_tracks(zs, songs, j)
         IN  IF ts = <<>> THEN CreateFrom(st, zs, songs, j + 1)
             ELSE CreateFrom(
                      create_or_update_playlist(
                          st, User, PlaylistName(zs[j]), Description(zs[j]),
                          [k \in 1..Len(ts) |-> TrackUri(ts[k].track_id)]),
                      zs, songs, j + 1)

\* generate_playlists without the check of lines 23-26
generate_playlists_NoSongCheck(zf, cached_songs, pls) ==
    IF ~zf.exists THEN [error |-> NoZones, pl |-> pls, calls |-> <<>>]
    ELSE LET st == CreateFrom([pl |-> pls, calls |-> <<>>, id |-> 0],
                              zf.table, cached_songs, 1)
         IN  [error |-> "", pl |-> st.pl, calls |-> st.calls]

\* generate_playlists, from the zones file zf, the list get_all_cached
\* returned and the listed playlists: the ClickException raised or "", the
\* playlists after it and the write calls made.
generate_playlists(zf, cached_songs, pls) ==
    IF ~zf.exists THEN [error |-> NoZones, pl |-> pls, calls |-> <<>>]
    ELSE IF cached_songs = <<>>
    THEN [error |-> NoSongs, pl |-> pls, calls |-> <<>>]
    ELSE LET st == CreateFrom([pl |-> pls, calls |-> <<>>, id |-> 0],
                              zf.table, cached_songs, 1)
         IN  [error |-> "", pl |-> st.pl, calls |-> st.calls]

\* ---------------------------------------------- inputs of the playlist code
MaxUris == 201     \* longest identifier list handed to create_or_update_playlist

\* fetchall() of a SELECT without ORDER BY: the rows in some order
Orders(rows) ==
    {f \in [1..Cardinality(rows) -> rows] :
        \A j, k \in 1..Cardinality(rows) : j # k => f[j] # f[k]}

\* Tables a scan can leave: each track without a row, with a NULL row, or
\* with a tempo (165 lies on the edge of two fallback bands, 85 matches by
\* its double, 128 matches no fallback band).
CacheTempos == {None, Float(128), Float(165), Float(85)}
Caches ==
    { UNION { IF f[k] = NoRow THEN {}
              ELSE {Row(k, Track(k).name, Track(k).artist, f[k])}
              : k \in TrackIds }
      : f \in [TrackIds -> {NoRow} \cup CacheTempos] }

ZoneFiles == {Absent, Saved(<<>>), Saved(FIXED_ZONES)}

\* Identifier lists around the multiples of the batch size
UriLists ==
    { [j \in 1..k |-> TrackUri(j)] :
        k \in {n \in 0..MaxUris : n % BatchSize \in {0, 1, BatchSize - 1}} }

\* The user's account before the command: no playlist; a playlist of the
\* name owned by somebody else; the user's playlist of the name, with items.
Accounts ==
    { <<>>,
      << Playlist(1, PlaylistName(FIXED_ZONES[1]), "other", <<"followed">>,
                  <<TrackUri(9)>>) >>,
      << Playlist(2, <<"Mix">>, User, <<"mine">>, <<TrackUri(1)>>),
         Playlist(1, PlaylistName(FIXED_ZONES[1]), User, <<"old">>,
                  <<TrackUri(9), TrackUri(1)>>) >>,
      << Playlist(3, PlaylistName(FIXED_ZONES[2]), "other", <<"followed">>,
                  <<TrackUri(9)>>),
         Playlist(1, PlaylistName(FIXED_ZONES[2]), User,
                  Description(FIXED_ZONES[2]), <<TrackUri(2), TrackUri(1)>>) >> }

CreateArgs ==
    { [name |-> PlaylistName(z), description |-> Description(z),
       track_uris |-> u] :
        z \in {FIXED_ZONES[1], FIXED_ZONES[4]}, u \in UriLists }

\* The state before a playlist command: either generate-playlists is to run
\* on a table, a zones file and an account, or create_or_update_playlist is
\* to be called with the arguments in args.
InitPlaylists ==
    /\ ScanInit
    /\ playlists \in Accounts
    /\ \/ args = <<>> /\ bpm_cache \in Caches /\ zones_file \in ZoneFiles
       \/ args \in {<<a>> : a \in CreateArgs}
              /\ bpm_cache = {} /\ zones_file = Absent
    /\ fit_paths = <<>>
    /\ all_cadence = <<>>
    /\ zones = <<>>
    /\ song_bpm = 0
    /\ matched = <<>>
    /\ calls = <<>>
    /\ error = ""
    /\ op = ""

\* The generate-playlists command
GenerateOp(cached_songs) ==
    LET out == generate_playlists(zones_file, cached_songs, playlists)
    IN  /\ args = <<>>
        /\ op' = "generate_playlists"
        /\ error' = out.error
        /\ playlists' = out.pl
        /\ calls' = out.calls
        /\ zones' = zones_file.table
        /\ UNCHANGED <<bpm_cache, scanvars, zones_file, fit_paths, all_cadence,
                       song_bpm, matched, args>>

\* create_or_update_playlist called with the arguments in args
CreateOrUpdateOp ==
    LET a   == args[1]
        out == create_or_update_playlist(
                   [pl |-> playlists, calls |-> <<>>, id |-> 0],
                   User, a.name, a.description, a.track_uris)
    IN  /\ args # <<>>
        /\ op' = "create_or_update_playlist"
        /\ playlists' = out.pl
        /\ calls' = out.calls
        /\ UNCHANGED <<bpm_cache, scanvars, zones_file, fit_paths, all_cadence,
                       zones, song_bpm, matched, error, args>>

NextPlaylists ==
    \/ \E cached_songs \in Orders(get_all_cached(bpm_cache)) :
           GenerateOp(cached_songs)
    \/ CreateOrUpdateOp

SpecPlaylists == InitPlaylists /\ [][NextPlaylists]_vars

\* =================================================================== claims
HasEv(ev, pos) == \E m \in 1..Len(log) : log[m].ev = ev /\ log[m].pos = pos
Requests == {m \in 1..Len(log) : log[m].ev \in {"search", "detail"}}
EarlierIds(n) == {tracks[m].id : m \in 1..n}

\* C1: when the lookup of the track at (0-based) position i returns
\* RATE_LIMITED the run is over at that track: every earlier track has a row,
\* the rate-limited track has none, rows of ids that do not occur earlier in
\* the batch are as they were when the run started, no request, write or
\* sleep happened for a later position, and the returned stats have
\* rate_limited = TRUE.
C1_RateLimitHalts ==
    (pc = "returned" /\ stats.rate_limited) =>
        /\ i < Len(tracks)
        /\ HasEv("search", i)
        /\ \A n \in 1..i : RowsOf(bpm_cache, tracks[n].id) # {}
        /\ RowsOf(bpm_cache, tracks[i + 1].id) = {}
        /\ \A k \in TrackIds \ EarlierIds(i) :
              RowsOf(bpm_cache, k) = RowsOf(dbStart, k)
        /\ \A m \in 1..Len(log) :
              /\ log[m].pos <= i
              /\ log[m].ev \in {"put", "sleep"} => log[m].pos < i

C1_Witness ==
    /\ pc = "returned" /\ stats.rate_limited
    /\ i >= 1 /\ HasEv("put", 0)
    /\ \E n \in (i + 2)..Len(tracks) : tracks[n].id \notin EarlierIds(i)

\* C2 as claimed: a run on the track set of the previous run issues no lookup,
\* whether the previous run returned with rate_limited FALSE or TRUE.
C2_SecondRunNoLookups ==
    prevSame \in {"complete", "rate_limited"} => Requests = {}

\* C2 amended: a run on the track set of a previous run that returned with
\* rate_limited = FALSE issues no request and writes nothing; every track is
\* tallied from the cache as cached or not_found.
C2_Idempotent ==
    prevSame = "complete" =>
        /\ log = <<>>
        /\ bpm_cache = dbStart
        /\ stats.found = 0 /\ ~stats.rate_limited
        /\ pc \in {"loop", "returned"}
        /\ stats.cached + stats.not_found = i
        /\ pc = "returned" => i = Len(tracks)

C2_Witness ==
    /\ prevSame = "complete" /\ pc = "returned"
    /\ stats.cached >= 1 /\ stats.not_found >= 1

\* C3: a track that has a row when the loop reaches it causes no request and
\* no write; a row with non-NULL bpm adds one to "cached" only, a row with
\* NULL bpm adds one to "not_found" only.  search_bpm is entered only for a
\* track without a row.
C3_CacheFirst ==
    [][ /\ (pc = "loop" /\ i < Len(tracks) /\ RowsOf(bpm_cache, track.id) # {})
            => /\ log' = log /\ bpm_cache' = bpm_cache
               /\ pc' = "loop" /\ i' = i + 1
               /\ stats' = IF \E r \in RowsOf(bpm_cache, track.id) : r.bpm # NULL
                           THEN [stats EXCEPT !.cached = @ + 1]
                           ELSE [stats EXCEPT !.not_found = @ + 1]
        /\ (pc = "loop" /\ pc' = "search")
            => RowsOf(bpm_cache, track.id) = {} ]_vars

C3_Witness ==
    /\ pc = "returned"
    /\ stats.cached >= 1 /\ stats.not_found >= 1 /\ stats.found >= 1
    /\ Cardinality({m \in 1..Len(log) : log[m].ev = "search"}) = 1

\* C4 as claimed: a track whose lookup returned a value or None has exactly
\* one row once its outcome is stored; after a float v the row reads back as
\* v and the track was tallied "found", after None the row has NULL bpm and
\* the track was tallied "not_found"; the outcome is stored before the loop
\* moves on.
C4_StoredEqualsResult ==
    \A n \in 1..Len(got) :
        LET g  == got[n]
            id == tracks[g.pos + 1].id
        IN  g.bpm # RATE_LIMITED =>
              /\ (g.pos < i \/ pc = "sleep") => HasEv("put", g.pos)
              /\ HasEv("put", g.pos) =>
                    /\ Cardinality(RowsOf(bpm_cache, id)) = 1
                    /\ get_cached_bpm(bpm_cache, id) = g.bpm
                    /\ IF g.bpm = None
                       THEN /\ TempoState(bpm_cache, id) = ConfirmedAbsent
                            /\ \E m \in 1..Len(log) :
                                  log[m] = Event("put", g.pos, 0)
                       ELSE \E m \in 1..Len(log) :
                                  log[m] = Event("put", g.pos, 1)

\* C5 as claimed: in a run that returned, every track for which a request was
\* sent is followed by a sleep, and only those.
C5_DelayAfterEveryAttempt ==
    pc = "returned" =>
        \A p \in 0..(Len(tracks) - 1) : HasEv("search", p) <=> HasEv("sleep", p)

\* C5 amended: a sleep follows every lookup that returned a value or None,
\* right after its outcome is stored and before the next request; no sleep
\* follows a track resolved from the cache, and none follows the lookup that
\* returned RATE_LIMITED.
C5_Pacing ==
    /\ \A m \in 1..Len(log) :
          log[m].ev = "sleep" =>
              m > 1 /\ log[m - 1].ev = "put" /\ log[m - 1].pos = log[m].pos
    /\ \A m \in 2..Len(log) : log[m].ev = "search" => log[m - 1].ev = "sleep"
    /\ \A p \in 0..(i - 1) : HasEv("search", p) <=> HasEv("sleep", p)
    /\ (pc = "returned" /\ stats.rate_limited) =>
          HasEv("search", i) /\ ~HasEv("sleep", i)

C5_Witness ==
    /\ pc = "returned" /\ stats.rate_limited
    /\ stats.cached >= 1
    /\ \E p \in 0..(i - 1) : HasEv("sleep", p)

\* C6: no step of the scanner deletes or changes a row: every row stays, and
\* a row is added only for an id that had none.
C6_RowsNeverModified ==
    [][ /\ bpm_cache \subseteq bpm_cache'
        /\ \A r \in bpm_cache' \ bpm_cache :
              RowsOf(bpm_cache, r.track_id) = {} ]_vars

C6_Witness ==
    /\ pc = "returned"
    /\ bpm_cache # dbStart
    /\ \E n \in 1..Len(tracks) :
          \E r \in RowsOf(dbStart, tracks[n].id) : r.bpm = NULL

\* C7 as claimed: get_cached_bpm returns different results for an id without
\* a row and for an id whose row has NULL bpm.
C7_GetDistinguishes ==
    \A a, b \in TrackIds :
        (RowsOf(bpm_cache, a) = {} /\ \E r \in RowsOf(bpm_cache, b) : r.bpm = NULL)
            => get_cached_bpm(bpm_cache, a) # get_cached_bpm(bpm_cache, b)

\* C7 amended: get_cached_bpm returns the tempo of a row with non-NULL bpm and
\* None both for an id without a row and for a row with NULL bpm; the three
\* states are told apart by get_cached_bpm followed by the scanner's own
\* row query: Unknown exactly when no row exists, ConfirmedAbsent exactly
\* when the row has NULL bpm, Known(v) exactly when the row has bpm v.
C7_ThreeStates ==
    \A k \in TrackIds :
        /\ RowsOf(bpm_cache, k) = {} =>
              /\ TempoState(bpm_cache, k) = Unknown
              /\ get_cached_bpm(bpm_cache, k) = None
        /\ \A r \in RowsOf(bpm_cache, k) :
              IF r.bpm = NULL
              THEN /\ TempoState(bpm_cache, k) = ConfirmedAbsent
                   /\ get_cached_bpm(bpm_cache, k) = None
              ELSE /\ TempoState(bpm_cache, k) = Known(r.bpm[2])
                   /\ get_cached_bpm(bpm_cache, k) = Float(r.bpm[2])

C7_Witness ==
    \E a, b \in TrackIds :
        /\ RowsOf(bpm_cache, a) = {}
        /\ \E r \in RowsOf(bpm_cache, b) : r.bpm = NULL

\* C8 as claimed: an id has at most one row, and after set_cached_bpm(id,
\* name, artist, t) the row of id reads back as exactly (name, artist, t),
\* whatever was stored before, the rows of the other ids being unchanged.
C8_UpsertLastWriteWins ==
    /\ \A k \in TrackIds : Cardinality(RowsOf(bpm_cache, k)) <= 1
    /\ lastPut # <<>> =>
          LET p == lastPut[1]
          IN  /\ \E r \in bpm_cache :
                    /\ RowsOf(bpm_cache, p.track_id) = {r}
                    /\ r.track_name = p.track_name
                    /\ r.artist = p.artist
                    /\ FromSql(r.bpm) = p.bpm
              /\ \A k \in TrackIds \ {p.track_id} :
                    RowsOf(bpm_cache, k) = RowsOf(dbStart, k)

\* The failures other than a 429 status that C9 lists: transport error,
\* non-200 status, malformed payload, no candidate id, missing tempo field.
IsFailure(q, r) ==
    \/ r.exc
    \/ r.status \notin {200, 429}
    \/ /\ r.status = 200 /\ q.url = "/search/"
       /\ (r.body # "list" \/ r.ids[1] = 0)
    \/ /\ r.status = 200 /\ q.url = "/song/"
       /\ (r.body # "song" \/ r.tempo[1] \in {"null", "emptystr", "badstr", "list"})

\* C9 as claimed: search_bpm never raises; a 429 status on either request
\* gives RATE_LIMITED; every other failure gives None.
C9_FailSoft ==
    /\ pc # "raised"
    /\ pc = "lookup_done" =>
          /\ (~resp.exc /\ resp.status = 429) => bpm = RATE_LIMITED
          /\ (~(~resp.exc /\ resp.status = 429) /\ IsFailure(req, resp))
                => bpm = None

\* C10: a lookup sends one search request first and at most one detail
\* request; the detail request directly follows the search of the same track,
\* is sent only after a 200 search response with a candidate list, and asks
\* for the id of the first candidate; a search without candidates returns
\* None with no detail request.
C10_TwoPhase ==
    /\ \A m \in 1..Len(log) :
          log[m].ev = "detail" =>
              m > 1 /\ log[m - 1] = Event("search", log[m].pos, 0)
    /\ \A m, n \in Requests :
          (log[m].ev = log[n].ev /\ log[m].pos = log[n].pos) => m = n
    /\ pc = "detail" =>
          /\ req = Request("/search/", 0)
          /\ ~resp.exc /\ resp.status = 200 /\ resp.body = "list"
          /\ Len(resp.ids) >= 1 /\ resp.ids[1] # 0
          /\ song_id = resp.ids[1]
          /\ log[Len(log)] = Event("search", i, 0)
    /\ req.url = "/song/" =>
          /\ req.id = song_id /\ song_id # 0
          /\ \E m \in 1..Len(log) : log[m] = Event("detail", i, 0)
    /\ (pc = "lookup_done" /\ req.url = "/search/"
            /\ ~resp.exc /\ resp.status = 200
            /\ (resp.body \in {"nokey", "empty"} \/ resp.ids = <<0>>)) =>
          /\ bpm = None
          /\ log[Len(log)] = Event("search", i, 0)

C10_Witness ==
    /\ pc = "lookup_done"
    /\ req = Request("/song/", 8)
    /\ bpm = Float(128)

\* A tempo b matches the band [low, high] when b, 2b or b/2 lies in it.
Hits(b, low, high) ==
    \/ low <= b /\ b <= high
    \/ low <= 2 * b /\ 2 * b <= high
    \/ 2 * low <= b /\ b <= 2 * high

\* C11: match_to_zone(tempo, zones) returns exactly the names of the zones
\* whose inclusive range [low, high] holds tempo, tempo * 2 or tempo / 2:
\* every zone of the table is checked, each matching name appears exactly
\* once (in table order), several names may be returned, and for the empty
\* table the result is empty.
C11_MatchExact ==
    op = "match_to_zone" =>
        LET hit == {j \in 1..Len(zones) :
                       Hits(song_bpm, zones[j].low, zones[j].high)}
        IN  /\ Len(matched) = Cardinality(hit)
            /\ \A j \in hit : \E m \in 1..Len(matched) :
                   matched[m] = zones[j].name
            /\ \A m \in 1..Len(matched) : \E j \in hit :
                   matched[m] = zones[j].name
            /\ \A m, n \in 1..Len(matched) :
                   m < n => \E j, k \in hit :
                       j < k /\ matched[m] = zones[j].name
                             /\ matched[n] = zones[k].name
            /\ zones = <<>> => matched = <<>>

\* A tempo that two of its candidates put in the same band, matched against a
\* table of which it matches several bands but not all.
C11_Witness ==
    /\ op = "match_to_zone"
    /\ Len(matched) >= 2 /\ Len(matched) < Len(zones)
    /\ \E j \in 1..Len(zones) :
           /\ zones[j].low <= song_bpm /\ song_bpm <= zones[j].high
           /\ zones[j].low <= 2 * song_bpm /\ 2 * song_bpm <= zones[j].high

\* The state holds a table calculate_zones computed from all_cadence.
Computed ==
    \/ op = "calculate_zones"
    \/ op = "analyze_runs" /\ all_cadence # <<>>

\* C12: for a non-empty sample list the band boundaries calculate_zones
\* produces never decrease and adjacent bands share an edge: Easy.low <=
\* Easy.high = Moderate.low <= Moderate.high = Tempo.low <= Tempo.high =
\* Speed.low <= Speed.high.
C12_Monotone ==
    Computed =>
        /\ Len(zones) = 4
        /\ \A j \in 1..4 : zones[j].low <= zones[j].high
        /\ \A j \in 1..3 : zones[j].high = zones[j + 1].low
        /\ <<zones[1].name, zones[2].name, zones[3].name, zones[4].name>>
               = <<"Easy", "Moderate", "Tempo", "Speed">>

\* Samples that are not in ascending order, with bands of positive width.
C12_Witness ==
    /\ op = "calculate_zones"
    /\ all_cadence[1] > all_cadence[Len(all_cadence)]
    /\ zones[1].low < zones[1].high
    /\ zones[3].low < zones[3].high

\* The sample of 0-based rank k in ascending order, without sorting: the
\* value v with at most k samples below it and more than k samples not above.
RankValue(s, k) ==
    CHOOSE v \in {s[j] : j \in 1..Len(s)} :
        /\ Cardinality({j \in 1..Len(s) : s[j] < v}) <= k
        /\ Cardinality({j \in 1..Len(s) : s[j] <= v}) > k

NearestRank(s, p) ==
    LET n == Len(s)
        r == (p * n) \div 100
    IN  RankValue(s, IF r < n - 1 THEN r ELSE n - 1)

\* C13: calculate_zones uses the nearest-rank percentile: the 25th, 50th,
\* 75th and 90th percentile of n samples are the samples of rank
\* min(floor(p * n / 100), n - 1) in ascending order, each an actual sample,
\* and the upper bound of Speed is the larger of the largest sample and
\* p90 + 10.
C13_NearestRank ==
    Computed =>
        LET s   == all_cadence
            top == CHOOSE v \in {s[j] : j \in 1..Len(s)} :
                       \A j \in 1..Len(s) : s[j] <= v
            p90 == NearestRank(s, 90)
        IN  /\ zones[1].low = NearestRank(s, 25)
            /\ zones[2].low = NearestRank(s, 50)
            /\ zones[3].low = NearestRank(s, 75)
            /\ zones[4].low = p90
            /\ zones[4].high = IF top >= p90 + 10 THEN top ELSE p90 + 10
            /\ \A j \in 1..4 : \E m \in 1..Len(s) : zones[j].low = s[m]

\* Eleven or more samples of which the largest lies more than 10 above the
\* 90th percentile, and the median differs from the lower quartile.
C13_Witness ==
    /\ op = "calculate_zones"
    /\ Len(all_cadence) >= 11
    /\ zones[4].high > zones[4].low + 10
    /\ zones[1].low < zones[2].low

\* The FIT files of the last analyze_runs that contributed samples.
Contributing == {k \in 1..Len(fit_paths) : fit_paths[k] # <<>>}

\* C14: analyze_runs saves the fixed fallback table, and computes no
\* percentiles, whenever fewer than 10 activities contributed samples;
\* it computes percentile zones only when at least 10 activities did.
C14_FallbackBelowTen ==
    (op = "analyze_runs" /\ error = "") =>
        IF Cardinality(Contributing) < 10
        THEN all_cadence = <<>> /\ zones_file = Saved(FIXED_ZONES)
        ELSE all_cadence # <<>>
             /\ zones_file = Saved(calculate_zones(all_cadence))

\* C15: when generate_playlists runs without a zones file, or with a
\* table that holds no row with a tempo, it ends with the error that names
\* the command to run first (analyze-runs, scan-library) and produces no
\* output: it makes no Spotify write call and every playlist is as it was.
C15_NoPartialOutput ==
    [][ (op' = "generate_playlists"
            /\ (~zones_file.exists \/ \A r \in bpm_cache : r.bpm = NULL))
        => /\ error' =
                 IF ~zones_file.exists
                 THEN "No cadence zones found. Run 'cadence-beats analyze-runs' first."
                 ELSE "No songs with BPM data found. Run 'cadence-beats scan-library' first."
           /\ calls' = <<>>
           /\ playlists' = playlists ]_vars

\* generate_playlists has ended in the scan-library error with a zones file
\* in place, a table whose rows are all NULL, and playlists in the account.
C15_Witness ==
    /\ op = "generate_playlists"
    /\ error = NoSongs
    /\ zones_file = Saved(FIXED_ZONES)
    /\ bpm_cache # {}
    /\ Len(playlists) = 2

\* The add calls of the last command, in call order, and their batches joined
AddCalls == SelectSeq(calls, LAMBDA c : c.fn = "playlist_add_items")

RECURSIVE Joined(_)
Joined(cs) == IF cs = <<>> THEN <<>> ELSE Head(cs).arg \o Joined(Tail(cs))

\* The user's playlists of a name
Named(pls, name) ==
    {j \in 1..Len(pls) : pls[j].name = name /\ pls[j].owner = User}

\* C16: create_or_update_playlist creates or replaces with bounded batches:
\* every add call submits at most 100 identifiers, the batches joined in call
\* order are the input list, and after the call the user has exactly one
\* playlist of the name, holding exactly the input list, whether or not it
\* existed before; a second call with the same arguments leaves the
\* playlists as the first call left them.
C16_CreateOrReplace ==
    /\ [](op = "create_or_update_playlist" =>
            /\ \A m \in 1..Len(AddCalls) :
                   Len(AddCalls[m].arg) \in 1..100
            /\ Joined(AddCalls) = args[1].track_uris
            /\ Cardinality(Named(playlists, args[1].name)) = 1
            /\ \A j \in Named(playlists, args[1].name) :
                   playlists[j].items = args[1].track_uris)
    /\ [][ (op = "create_or_update_playlist"
               /\ op' = "create_or_update_playlist" /\ args' = args)
            => playlists' = playlists ]_vars

\* A list of more than 200 identifiers has replaced the items of a playlist
\* that existed, in three add calls.
C16_Witness ==
    /\ op = "create_or_update_playlist"
    /\ Len(args[1].track_uris) > 200
    /\ Len(AddCalls) = 3
    /\ \E m \in 1..Len(calls) : calls[m].fn = "playlist_replace_items"

\* The provider has just answered a request with 429.
RateLimitedAnswer == pc = "lookup_done" /\ bpm = RATE_LIMITED

\* The run has returned with rate_limited = FALSE and every track of the
\* batch has a row.
RunComplete ==
    /\ pc = "returned" /\ ~stats.rate_limited
    /\ \A k \in Ids(tracks) : RowsOf(bpm_cache, k) # {}

\* C17 (safety half): a run that follows a rate-limited run of the same
\* batch sends requests only for tracks that had no row when it started,
\* the first of them for the first such track of the batch, and no run ever
\* removes a row.
C17_ResumeSafety ==
    /\ [](prevSame = "rate_limited" =>
            /\ \A m \in Requests :
                   RowsOf(dbStart, tracks[log[m].pos + 1].id) = {}
            /\ \A m \in Requests : \A n \in 1..log[m].pos :
                   RowsOf(bpm_cache, tracks[n].id) # {})
    /\ [][\A k \in TrackIds :
              RowsOf(bpm_cache, k) # {} => RowsOf(bpm_cache', k) # {}]_vars

\* C17: scans are resumable: if the provider stops answering 429 from some
\* point on, repeated runs of the scan on the same batch reach a run that
\* returns with rate_limited = FALSE and a row for every track of the batch.
C17_Resumable == ([]<>RateLimitedAnswer) \/ (<>RunComplete)

\* C18: the computed bands Easy, Moderate and Tempo are half-open: a tempo
\* with a candidate equal to the edge two adjacent computed bands share, and
\* no candidate inside the lower band [low, high), is reported for the upper
\* band and not for the lower one (the lower band having positive width).
C18_HalfOpen ==
    (op = "match_to_zone" /\ all_cadence # <<>>) =>
        \A j \in 1..3 :
            LET low  == zones[j].low
                edge == zones[j].high
                b    == song_bpm
            IN  ( /\ low < edge
                  /\ b = edge \/ 2 * b = edge \/ b = 2 * edge
                  /\ ~(low <= b /\ b < edge)
                  /\ ~(low <= 2 * b /\ 2 * b < edge)
                  /\ ~(2 * low <= b /\ b < 2 * edge) )
                => /\ \E m \in 1..Len(matched) : matched[m] = zones[j + 1].name
                   /\ \A m \in 1..Len(matched) : matched[m] # zones[j].name

\* C19: every tempo search_bpm returns as a value, and every tempo the
\* scanner stores, is a strictly positive number.
C19_PositiveTempo ==
    /\ \A m \in 1..Len(got) :
           got[m].bpm \notin {None, RATE_LIMITED} =>
               got[m].bpm[1] = "float" /\ got[m].bpm[2] > 0
    /\ \A r \in bpm_cache : r.bpm # NULL => r.bpm[2] > 0

\* The lookups of the current run by what they returned, and its writes.
GotValue == {m \in 1..Len(got) : got[m].bpm \notin {None, RATE_LIMITED}}
GotNone  == {m \in 1..Len(got) : got[m].bpm = None}
GotLimit == {m \in 1..Len(got) : got[m].bpm = RATE_LIMITED}
Puts     == {m \in 1..Len(log) : log[m].ev = "put"}

\* C20: when scan_for_bpms returns, found + cached + not_found is the number
\* of tracks processed: the batch length when rate_limited is FALSE, the
\* 0-based position of the rate-limited track when it is TRUE (that track is
\* in no tally); and found plus the not_found tallies of fresh lookups is
\* the number of rows written in the run.
C20_Tallies ==
    pc = "returned" =>
        LET sum == stats.found + stats.cached + stats.not_found
        IN  /\ sum = i
            /\ ~stats.rate_limited => sum = Len(tracks) /\ GotLimit = {}
            /\ stats.rate_limited =>
                   /\ GotLimit = {Len(got)}
                   /\ sum = got[Len(got)].pos
            /\ stats.found = Cardinality(GotValue)
            /\ stats.found + Cardinality(GotNone) = Cardinality(Puts)
            /\ stats.not_found >= Cardinality(GotNone)
            /\ Cardinality(Puts)
                   = Cardinality(bpm_cache) - Cardinality(dbStart)

\* A run has returned rate-limited at its third track, after one track was
\* found and its duplicate was counted as cached.
C20_Witness ==
    /\ pc = "returned" /\ stats.rate_limited
    /\ stats.found = 1 /\ stats.cached = 1 /\ i = 2

\* The lookups of the current run: each begins with its search request.
Lookups == {m \in 1..Len(log) : log[m].ev = "search"}

\* C21: within one run of scan_for_bpms the tracks are processed in input
\* order, one lookup at a time (a lookup has stored its outcome before the
\* next one begins), and each track id is looked up at most once even when
\* the batch repeats it; so the lookups of a run are at most as many as the
\* distinct ids of the batch that had no row when the run started.
C21_SequentialOncePerId ==
    /\ \A m, n \in 1..Len(log) : m < n => log[m].pos <= log[n].pos
    /\ \A m \in 1..Len(log) : log[m].pos <= i /\ log[m].pos < Len(tracks)
    /\ \A m, n \in Lookups :
           m < n =>
               /\ log[m].pos < log[n].pos
               /\ tracks[log[m].pos + 1].id # tracks[log[n].pos + 1].id
               /\ \E k \in m..n : log[k].ev = "put" /\ log[k].pos = log[m].pos
    /\ \A m \in Lookups : RowsOf(dbStart, tracks[log[m].pos + 1].id) = {}
    /\ Cardinality(Lookups)
           <= Cardinality({k \in Ids(tracks) : RowsOf(dbStart, k) = {}})

\* A run over a batch that repeats an id has returned: the first occurrence
\* was looked up, the later one was resolved from the row written for it,
\* and another id was looked up as well.
C21_Witness ==
    /\ pc = "returned" /\ ~stats.rate_limited
    /\ Len(tracks) = 3 /\ Cardinality(Ids(tracks)) = 2
    /\ tracks[1].id = tracks[2].id
    /\ Cardinality(Lookups) = 2
    /\ dbStart = {}

====
